---- MODULE Spec2Model ----
(***************************************************************************)
(* Covering designs as constraint models (j2kun/subset-cover).             *)
(*                                                                         *)
(* One call of solve(parameters) of one encoding strategy is modelled as   *)
(* a small state machine:                                                  *)
(*     start --Build--> built --BackendCheck--> checked --Classify--> done *)
(*     start --BuildRaises--> raised                                       *)
(* Build is the model construction of the strategy (universe, hit sets,    *)
(* variables), BackendCheck the call solver.Solve() / solver.check() of    *)
(* the linked backend, Classify the if/elif chain that maps the backend's  *)
(* status to a SolveStatus.  The backend is an opaque collaborator: it may *)
(* answer "found" with ANY assignment satisfying every posted constraint,  *)
(* "proved infeasible" only when no assignment satisfies them, or an       *)
(* inconclusive status at any time (time limit).                           *)
(* Spec runs the five feasibility strategies, SpecNumeric the numeric ones *)
(* together with MinSubsetCoverILP, SpecScenario the reference instances.  *)
(* SpecTimer follows the statements of solve in source order against a     *)
(* clock, for the placement of the two time() reads.                       *)
(***************************************************************************)
EXTENDS Integers, Sequences, FiniteSets, TLC

\* Bounds of the model: largest num_elements / sizes and num_choice_sets.
MaxN == 3
MaxM == 2
\* Longest time one statement of solve takes, in clock ticks.
MaxTick == 2
\* Largest slot index and element a variable name is formatted for.
MaxIndex == 11

ILP == "SubsetCoverILP"
CP == "SubsetCoverCP"
Z3Integer == "SubsetCoverZ3"
Z3Cardinality == "SubsetCoverZ3Cardinality"
Z3BruteForce == "SubsetCoverZ3BruteForce"
MinILP == "MinSubsetCoverILP"

Strategies == {ILP, CP, Z3Integer, Z3Cardinality, Z3BruteForce}
SlotNumeric == {ILP, CP}

VARIABLES
    strategy,          \* the SubsetCover subclass whose solve is running
    parameters,        \* the SubsetCoverParameters passed to solve
    pc,                \* position inside solve
    hit_sets,          \* list built by make_hit_sets / the hit_sets dict keys
    memberships,       \* ChoiceSetMembers.memberships: <<slot, element>> in creation order
    is_hit_variables,  \* IsHits.is_hit_variables: <<hit set, slot>> in creation order
    choice_sets,       \* brute force: the candidate tuples, in creation order
    result,            \* the backend's native status
    assignment,        \* the backend's variable values when it found a solution
    status,            \* SolveStatus of the returned SubsetCoverSolution
    raised,            \* name of the exception that ended solve, or "none"
    time_limit,        \* the time limit set on the backend, in milliseconds
    step,              \* SpecTimer: index of the next statement of solve
    clock,             \* SpecTimer: what time() would return now
    start,             \* start = time()
    end,               \* end = time()
    elapsed,           \* elapsed = end - start
    solve_time_seconds, \* the field of the returned SubsetCoverSolution
    log                \* SpecTimer: the statements executed, with their duration

vars == <<strategy, parameters, pc, hit_sets, memberships, is_hit_variables,
          choice_sets, result, assignment, status, raised, time_limit,
          step, clock, start, end, elapsed, solve_time_seconds, log>>

\* the variables of the clock and the two timestamps
timer_vars == <<step, clock, start, end, elapsed, solve_time_seconds, log>>

----------------------------------------------------------------------------
(* Python helpers: range, sorted, itertools.combinations, itertools.product *)

\* list(range(n)) as a sequence
Range(n) == [i \in 1..n |-> i - 1]

ToSet(seq) == {seq[i] : i \in DOMAIN seq}

RECURSIVE Insert(_, _)
Insert(x, seq) ==
    IF seq = <<>> THEN <<x>>
    ELSE IF x <= Head(seq) THEN <<x>> \o seq
    ELSE <<Head(seq)>> \o Insert(x, Tail(seq))

\* sorted(seq): insertion of each item into the sorted rest
RECURSIVE Sorted(_)
Sorted(seq) ==
    IF seq = <<>> THEN <<>> ELSE Insert(Head(seq), Sorted(Tail(seq)))

\* itertools.combinations(pool, r): the r-length subsequences of pool, emitted
\* in lexicographic order of the positions they take from pool.
\* combinations with an off-by-one length test: a pool of exactly r items
\* yields nothing
RECURSIVE combinations_short(_, _)
combinations_short(pool, r) ==
    IF r = 0 THEN << <<>> >>
    ELSE IF Len(pool) <= r THEN <<>>
    ELSE LET with == combinations_short(Tail(pool), r - 1)
             without == combinations_short(Tail(pool), r)
         IN  [i \in 1..Len(with) |-> <<Head(pool)>> \o with[i]] \o without

\* itertools.combinations(pool, r): the r-length subsequences of pool, in
\* lexicographic order of positions
RECURSIVE combinations(_, _)
combinations(pool, r) ==
    IF r = 0 THEN << <<>> >>
    ELSE IF Len(pool) < r THEN <<>>
    ELSE LET with == combinations(Tail(pool), r - 1)
             without == combinations(Tail(pool), r)
         IN  [i \in 1..Len(with) |-> <<Head(pool)>> \o with[i]] \o without

\* itertools.product(xs, ys): the pairs, the last position varying fastest
product(xs, ys) ==
    [i \in 1..(Len(xs) * Len(ys)) |->
        <<xs[((i - 1) \div Len(ys)) + 1], ys[((i - 1) % Len(ys)) + 1]>>]

RECURSIVE Sum(_, _)
Sum(f, S) ==
    IF S = {} THEN 0
    ELSE LET x == CHOOSE y \in S : TRUE IN f[x] + Sum(f, S \ {x})

----------------------------------------------------------------------------
(* Universe and hit sets                                                   *)

make_hit_sets(elements, hit_set_size) ==
    LET combos == combinations(elements, hit_set_size)
    IN  [i \in 1..Len(combos) |-> Sorted(combos[i])]

ElementList(p) == Range(p.num_elements)
ChoiceSetIndices(p) == Range(p.num_choice_sets)
Elements(p) == ToSet(ElementList(p))
Slots(p) == ToSet(ChoiceSetIndices(p))
HitSetList(p) == make_hit_sets(ElementList(p), p.hit_set_size)

----------------------------------------------------------------------------
(* Slot-based numeric model (SubsetCoverILP; SubsetCoverCP posts the same   *)
(* three families of constraints on cp_model IntVar(0, 1) variables)       *)

\* Values of solver.IntVar(0, 1, name) / model.NewIntVar(0, 1, name)
Binary == {0, 1}

\* "Each choice set must have size choice_set_size": sum(member_vars) == k,
\* member_vars being the Member variables of one slot, keyed by element
SizeConstraint(member_vars, p) ==
    Sum(member_vars, DOMAIN member_vars) = p.choice_set_size

\* the coverage constraint with right-hand side 0
CoverageConstraint_vacuous(is_hit_vars) ==
    Sum(is_hit_vars, DOMAIN is_hit_vars) >= 0

\* "Each hit set must be hit by at least one choice set": sum(is_hit_vars) >= 1,
\* is_hit_vars being the IsHit variables of one hit set, keyed by slot
CoverageConstraint(is_hit_vars) ==
    Sum(is_hit_vars, DOMAIN is_hit_vars) >= 1

\* the linking constraint with coefficient hit_set_size - 1 on IsHit
LinkingConstraint_slack(member_vars, hit_set, is_hit, p) ==
    Sum(member_vars, ToSet(hit_set)) >= (p.hit_set_size - 1) * is_hit

\* lhs >= rhs with lhs = sum(Member(slot, e) for e in hit_set) and
\* rhs = hit_set_size * IsHit(hit_set, slot)
LinkingConstraint(member_vars, hit_set, is_hit, p) ==
    Sum(member_vars, ToSet(hit_set)) >= p.hit_set_size * is_hit

\* the Member values with a symmetry-breaking order between consecutive
\* slots added: the size of the part below each element never decreases
\* from one slot to the next
NumericMemberModels_ordered(p) ==
    {mem \in [Slots(p) -> {mv \in [Elements(p) -> Binary] : SizeConstraint(mv, p)}] :
        \A s \in Slots(p) : \A e \in Elements(p) :
            (s + 1) \in Slots(p) =>
                Sum(mem[s], {x \in Elements(p) : x <= e})
                    >= Sum(mem[s + 1], {x \in Elements(p) : x <= e})}

\* The Member values of all slots that satisfy every size constraint
NumericMemberModels(p) ==
    [Slots(p) -> {mv \in [Elements(p) -> Binary] : SizeConstraint(mv, p)}]

\* the IsHit values with the linking constraints left out
NumericIsHitChoices_unlinked(member, hit_set, p) ==
    {iv \in [Slots(p) -> Binary] : CoverageConstraint(iv)}

\* The IsHit values of one hit set (keyed by slot) that satisfy its coverage
\* constraint and its linking constraints, the Member values being given
NumericIsHitChoices(member, hit_set, p) ==
    {iv \in [Slots(p) -> Binary] :
        /\ CoverageConstraint(iv)
        /\ \A s \in Slots(p) : LinkingConstraint(member[s], hit_set, iv[s], p)}

RECURSIVE NumericIsHitModels(_, _, _)
NumericIsHitModels(member, hs, p) ==
    IF hs = <<>> THEN {<<>>}
    ELSE {<<iv>> \o rest : iv \in NumericIsHitChoices(member, Head(hs), p),
                           rest \in NumericIsHitModels(member, Tail(hs), p)}

\* The model has a satisfying assignment: some Member values satisfy the size
\* constraints and leave every hit set a choice of IsHit values
NumericSatisfiable(p) ==
    \E mem \in NumericMemberModels(p) :
        \A i \in DOMAIN HitSetList(p) :
            NumericIsHitChoices(mem, HitSetList(p)[i], p) # {}

----------------------------------------------------------------------------
(* Minimization model (MinSubsetCoverILP): the numeric model over           *)
(* comb(n, t) slots, each with a Chosen switch on its size constraint, and  *)
(* the objective Minimize(sum(Chosen))                                      *)

\* math.comb(n, k)
RECURSIVE comb(_, _)
comb(n, k) ==
    IF k > n THEN 0
    ELSE IF k = 0 THEN 1
    ELSE comb(n - 1, k - 1) + comb(n - 1, k)

\* the slot count taken from the caller's num_choice_sets
MinParameters_as_passed(p) == p

\* num_choice_sets = comb(num_elements, hit_set_size): the parameter of the
\* caller is ignored
MinParameters(p) ==
    [p EXCEPT !.num_choice_sets = comb(p.num_elements, p.hit_set_size)]

\* the size constraint without the Chosen switch
MinSizeConstraint_ungated(member_vars, is_chosen, p) ==
    Sum(member_vars, DOMAIN member_vars) = p.choice_set_size

\* sum(Member_{C, elt}) == K * Chosen{C}
MinSizeConstraint(member_vars, is_chosen, p) ==
    Sum(member_vars, DOMAIN member_vars) = p.choice_set_size * is_chosen

\* Member and Chosen values of one slot that satisfy its size constraint
MinSlotModels(p) ==
    {sm \in [member : [Elements(p) -> Binary], chosen : Binary] :
        MinSizeConstraint(sm.member, sm.chosen, p)}

MemberOf(slot_models) == [s \in DOMAIN slot_models |-> slot_models[s].member]
ChosenOf(slot_models) == [s \in DOMAIN slot_models |-> slot_models[s].chosen]

\* Member and Chosen values of all slots that satisfy the size constraints and
\* leave every hit set a choice of IsHit values
MinFeasibleModels(p) ==
    {f \in [Slots(MinParameters(p)) -> MinSlotModels(p)] :
        \A i \in DOMAIN HitSetList(p) :
            NumericIsHitChoices(MemberOf(f), HitSetList(p)[i], MinParameters(p)) # {}}

\* sum(is_chosens.values())
Objective(chosen) == Sum(chosen, DOMAIN chosen)

\* the greatest objective value: the objective maximized
MinObjective_maximized(p) ==
    LET values == {Objective(ChosenOf(f)) : f \in MinFeasibleModels(p)}
    IN  CHOOSE v \in values : \A w \in values : v >= w

\* the least objective value over the satisfying assignments
MinObjective(p) ==
    LET values == {Objective(ChosenOf(f)) : f \in MinFeasibleModels(p)}
    IN  CHOOSE v \in values : \A w \in values : v <= w

----------------------------------------------------------------------------
(* Symbolic-integer model (SubsetCoverZ3): Int variables, explicit bounds   *)

\* A window of the integers standing for the domain of a z3 Int
IntValues == -1..2

\* position of a hit set in the hit set list (the hit_sets dict lookup)
HitIndex(hs, key) == CHOOSE i \in DOMAIN hs : hs[i] = key

\* memberships_by_choice_set has a key only for a slot with a membership
Z3GroupedSlots(p) == {s \in Slots(p) : Elements(p) # {}}

\* sum(mem.variable for mem in memberships) == parameters.choice_set_size
Z3SizeConstraint(member_vars, p) ==
    Sum(member_vars, DOMAIN member_vars) = p.choice_set_size

\* solver.add(mem.variable >= 0); solver.add(mem.variable <= 1)
Z3BoundConstraint(v) == v >= 0 /\ v <= 1

\* solver.add(hit_set.variable == 1)
Z3HitAsserted(v) == v = 1

\* Member_(i,a) == 1 and Member_(i,b) == 1 => Hit_(a,b) == 1, for each slot
\* and each hit_set_size-subset of the slot's memberships
Z3ForwardImplications(member, hit, p) ==
    \A s \in Slots(p) :
        \A c \in ToSet(combinations(ElementList(p), p.hit_set_size)) :
            (\A e \in ToSet(c) : member[s][e] = 1)
                => hit[HitIndex(HitSetList(p), Sorted(c))] = 1

\* the backward implications left out
Z3BackwardImplications_missing(member, hit, p) == TRUE

\* Hit_(a,b) == 1 => OR over slots of (Member(s,a) == 1 AND Member(s,b) == 1)
Z3BackwardImplications(member, hit, p) ==
    \A i \in DOMAIN hit :
        hit[i] = 1 =>
            \E s \in Slots(p) : \A e \in ToSet(HitSetList(p)[i]) : member[s][e] = 1

Z3MemberModels(p) ==
    {mem \in [Slots(p) -> {mv \in [Elements(p) -> IntValues] :
                              \A e \in Elements(p) : Z3BoundConstraint(mv[e])}] :
        \A s \in Z3GroupedSlots(p) : Z3SizeConstraint(mem[s], p)}

Z3HitModels(p) ==
    [DOMAIN HitSetList(p) -> {v \in IntValues : Z3HitAsserted(v)}]

Z3IntegerModels(p) ==
    {a \in {[member |-> mem, is_hit |-> <<>>, hit |-> hv, choice |-> <<>>] :
               mem \in Z3MemberModels(p), hv \in Z3HitModels(p)} :
        /\ Z3ForwardImplications(a.member, a.hit, p)
        /\ Z3BackwardImplications(a.member, a.hit, p)}

----------------------------------------------------------------------------
(* Candidate-based model (SubsetCoverZ3BruteForce): one Bool per k-subset   *)

\* the ChoiceSet candidates: combinations(elements, choice_set_size)
Candidates(p) == combinations(ElementList(p), p.choice_set_size)

\* hit_set_to_choice_set_lookup_leading: a hit set indexed only under the
\* candidates that start with it
hit_set_to_choice_set_lookup_leading(p, i) ==
    {c \in DOMAIN Candidates(p) :
        SubSeq(Candidates(p)[c], 1, p.hit_set_size) = HitSetList(p)[i]}

\* hit_set_to_choice_set_lookup: the candidates indexed under a hit set
hit_set_to_choice_set_lookup(p, i) ==
    {c \in DOMAIN Candidates(p) :
        \E key \in ToSet(combinations(Candidates(p)[c], p.hit_set_size)) :
            Sorted(key) = HitSetList(p)[i]}

\* Choice_(1,2,3) => Hit_(1,2), for each hit_set_size-subset of each candidate
ChoiceImpliesHit(choice, hit, p) ==
    \A c \in DOMAIN Candidates(p) :
        \A key \in ToSet(combinations(Candidates(p)[c], p.hit_set_size)) :
            choice[c] => hit[HitIndex(HitSetList(p), Sorted(key))]

\* Hit_(1,2) => Choice(1,2,3) OR Choice(1,2,4) OR ...
HitImpliesChoice(choice, hit, p) ==
    \A i \in DOMAIN hit :
        hit[i] => \E c \in hit_set_to_choice_set_lookup(p, i) : choice[c]

\* AtMost(*choice_vars, num_choice_sets)
choice_sets_at_most(choice, p) ==
    Cardinality({c \in DOMAIN choice : choice[c]}) <= p.num_choice_sets

\* the AtLeast constraint left out
choice_sets_at_least_dropped(choice, p) == TRUE

\* AtLeast(*choice_vars, num_choice_sets)
choice_sets_at_least(choice, p) ==
    Cardinality({c \in DOMAIN choice : choice[c]}) >= p.num_choice_sets

\* solver.add(hit_set.variable)  # all must be hit
AllHitAsserted(hit) == \A i \in DOMAIN hit : hit[i]

BruteForceModels(p) ==
    {a \in {[member |-> <<>>, is_hit |-> <<>>, hit |-> hv, choice |-> cv] :
               hv \in [DOMAIN HitSetList(p) -> BOOLEAN],
               cv \in [DOMAIN Candidates(p) -> BOOLEAN]} :
        /\ AllHitAsserted(a.hit)
        /\ ChoiceImpliesHit(a.choice, a.hit, p)
        /\ HitImpliesChoice(a.choice, a.hit, p)
        /\ choice_sets_at_most(a.choice, p)
        /\ choice_sets_at_least(a.choice, p)}

\* The model that strategy s builds for p has a satisfying assignment
Satisfiable(s, p) ==
    CASE s \in SlotNumeric -> NumericSatisfiable(p)
      [] s = Z3Integer -> Z3IntegerModels(p) # {}
      [] s = Z3BruteForce -> BruteForceModels(p) # {}
      [] s = MinILP -> MinFeasibleModels(p) # {}
      [] OTHER -> FALSE

----------------------------------------------------------------------------
(* Backend statuses and the result classifier                               *)

SOLVED == "SOLVED"
INFEASIBLE == "INFEASIBLE"
UNKNOWN == "UNKNOWN"

\* what the backend returns when it found an assignment
FoundStatuses(s) ==
    IF s \in {ILP, CP, MinILP} THEN {"OPTIMAL", "FEASIBLE"} ELSE {"sat"}

\* what the backend returns when it proved that there is no assignment
ProvedInfeasible(s) ==
    IF s \in {ILP, CP, MinILP} THEN "INFEASIBLE" ELSE "unsat"

\* what the backend returns when it gave up (time limit, abnormal end)
InconclusiveStatuses(s) ==
    CASE s \in {ILP, MinILP} -> {"NOT_SOLVED", "ABNORMAL"}
      [] s = CP -> {"UNKNOWN"}
      [] OTHER -> {"unknown"}

\* every code of the backend's status enumeration: pywraplp.Solver result
\* status, cp_model CpSolverStatus, z3 CheckSatResult
NativeStatuses(s) ==
    CASE s \in {ILP, MinILP} ->
            {"OPTIMAL", "FEASIBLE", "INFEASIBLE", "UNBOUNDED", "ABNORMAL",
             "MODEL_INVALID", "NOT_SOLVED"}
      [] s = CP -> {"UNKNOWN", "MODEL_INVALID", "FEASIBLE", "INFEASIBLE", "OPTIMAL"}
      [] OTHER -> {"sat", "unsat", "unknown"}

\* the codes by which a backend reports that it failed rather than decided:
\* pywraplp ABNORMAL and MODEL_INVALID, cp_model MODEL_INVALID
FailureStatuses(s) ==
    CASE s \in {ILP, MinILP} -> {"ABNORMAL", "MODEL_INVALID"}
      [] s = CP -> {"MODEL_INVALID"}
      [] OTHER -> {}

\* the classifier taking only OPTIMAL as a found solution
ClassifyILP_optimal_only(st) ==
    IF st = "OPTIMAL" THEN SOLVED
    ELSE IF st = "INFEASIBLE" THEN INFEASIBLE
    ELSE UNKNOWN

\* SubsetCoverILP.solve, the status mapping after solver.Solve()
ClassifyILP(st) ==
    IF st = "OPTIMAL" \/ st = "FEASIBLE" THEN SOLVED
    ELSE IF st = "INFEASIBLE" THEN INFEASIBLE
    ELSE UNKNOWN

ClassifyCP(st) ==
    IF st = "OPTIMAL" THEN SOLVED
    ELSE IF st = "INFEASIBLE" THEN INFEASIBLE
    ELSE UNKNOWN

\* the z3 classifier with every result but sat taken as unsat
ClassifyZ3_not_sat_infeasible(st) ==
    IF st = "sat" THEN SOLVED ELSE INFEASIBLE

\* SubsetCoverZ3.solve (and the brute-force and cardinality strategies): the
\* two early returns after solver.check(), SOLVED at the end
ClassifyZ3(st) ==
    IF st = "unsat" THEN INFEASIBLE
    ELSE IF st = "unknown" THEN UNKNOWN
    ELSE SOLVED

\* MinSubsetCoverILP.solve, the status mapping after solver.Solve()
ClassifyMinILP(st) ==
    IF st = "OPTIMAL" \/ st = "FEASIBLE" THEN SOLVED
    ELSE IF st = "INFEASIBLE" THEN INFEASIBLE
    ELSE UNKNOWN

ClassifyStatus(s, st) ==
    CASE s = ILP -> ClassifyILP(st)
      [] s = CP -> ClassifyCP(st)
      [] s = MinILP -> ClassifyMinILP(st)
      [] OTHER -> ClassifyZ3(st)

----------------------------------------------------------------------------
(* The state machine of one solve call                                      *)

NoAssignment == [member |-> <<>>, is_hit |-> <<>>, hit |-> <<>>, choice |-> <<>>]

ParameterSpace ==
    [num_elements : 0..MaxN, hit_set_size : 0..MaxN,
     choice_set_size : 0..MaxN, num_choice_sets : 0..MaxM]

\* ChoiceSetMembers.__init__: one membership per pair of product(elements, slots)
ChoiceSetMembers(elements, choice_set_indices) ==
    LET pairs == product(elements, choice_set_indices)
    IN  [i \in DOMAIN pairs |->
            [element |-> pairs[i][1], choice_set_index |-> pairs[i][2]]]

\* the indicators created slot by slot instead of hit set by hit set
IsHits_slot_major(hs, choice_set_indices) ==
    LET pairs == product(choice_set_indices, hs)
    IN  [i \in DOMAIN pairs |->
            [hit_set |-> pairs[i][2], choice_set_index |-> pairs[i][1]]]

\* IsHits.__init__: one indicator per pair of product(hit_sets, slots)
IsHits(hs, choice_set_indices) ==
    LET pairs == product(hs, choice_set_indices)
    IN  [i \in DOMAIN pairs |->
            [hit_set |-> pairs[i][1], choice_set_index |-> pairs[i][2]]]

\* Digits of the decimal notation
Digits == <<"0", "1", "2", "3", "4", "5", "6", "7", "8", "9">>

\* str(i) of a natural number, as its sequence of characters
RECURSIVE Decimal(_)
Decimal(i) ==
    IF i < 10 THEN <<Digits[i + 1]>>
    ELSE Decimal(i \div 10) \o <<Digits[(i % 10) + 1]>>

\* f"Member_({choice_set_index},{element})"
MemberName(choice_set_index, element) ==
    <<"Member_(">> \o Decimal(choice_set_index) \o <<",">>
        \o Decimal(element) \o <<")">>

\* ChoiceSetMembers.for_choice_set_index_and_element: memberships_lookup is
\* a dict filled in creation order, a later membership replacing an earlier
\* one of the same key
for_choice_set_index_and_element(ms, choice_set_index, element) ==
    LET at == {i \in DOMAIN ms : /\ ms[i].choice_set_index = choice_set_index
                                 /\ ms[i].element = element}
    IN  ms[CHOOSE i \in at : \A j \in at : j <= i]

\* for_choice_set_index_by_element: the memberships grouped under their
\* element
for_choice_set_index_by_element(ms, choice_set_index) ==
    {ms[i] : i \in {j \in DOMAIN ms : ms[j].element = choice_set_index}}

\* ChoiceSetMembers.for_choice_set_index: memberships_by_choice_set is a
\* defaultdict of sets
for_choice_set_index(ms, choice_set_index) ==
    {ms[i] : i \in {j \in DOMAIN ms : ms[j].choice_set_index = choice_set_index}}

\* ChoiceSetMembers.grouped_by_choice_set: the sets of the slots that have a
\* membership
grouped_by_choice_set(ms) ==
    {for_choice_set_index(ms, ms[i].choice_set_index) : i \in DOMAIN ms}

\* IsHits.for_hit_set: by_hit_set is a defaultdict of sets
for_hit_set(ih, h) ==
    {ih[i] : i \in {j \in DOMAIN ih : ih[j].hit_set = h}}

\* solve raises before any backend call: SubsetCoverZ3Cardinality uses the name
\* ChoiceSetMembers, which its module neither defines nor imports; z3's
\* AtMost/AtLeast reject an argument list that holds no variable.
BuildException(s, p) ==
    CASE s = Z3Cardinality -> "NameError"
      [] s = Z3BruteForce /\ Candidates(p) = <<>> -> "Z3Exception"
      [] OTHER -> "none"

\* the slot count the model is built with
ModelParameters(s, p) == IF s = MinILP THEN MinParameters(p) ELSE p

\* no time limit has been set on the backend
NoTimeLimit == 0

\* The time limit solve sets on its backend before the call, in milliseconds.
\* SubsetCoverILP: the SetTimeLimit call stands inside a string literal.
\* SubsetCoverCP: solver.parameters.max_time_in_seconds (seconds).
\* z3: solver.set("timeout", ...) (milliseconds).
TimeLimit(s) ==
    CASE s = ILP -> NoTimeLimit
      [] s = CP -> (60 * 15) * 1000
      [] s = Z3Integer -> 60 * 5
      [] s = Z3Cardinality -> 60 * 5
      [] s = Z3BruteForce -> 1000 * 60 * 15
      [] s = MinILP -> (60 * 5) * 1000

\* before solve() is entered nothing has been built or returned
NotStarted ==
    /\ pc = "start"
    /\ hit_sets = <<>>
    /\ memberships = <<>>
    /\ is_hit_variables = <<>>
    /\ choice_sets = <<>>
    /\ result = "none"
    /\ assignment = NoAssignment
    /\ status = "none"
    /\ raised = "none"
    /\ time_limit = NoTimeLimit
    /\ step = 1
    /\ clock = 0
    /\ start = 0
    /\ end = 0
    /\ elapsed = 0
    /\ solve_time_seconds = 0
    /\ log = <<>>

Init ==
    /\ strategy \in Strategies
    /\ parameters \in ParameterSpace
    /\ NotStarted

\* model construction: universe, hit sets, variables and their lookups
Build ==
    /\ pc = "start"
    /\ BuildException(strategy, parameters) = "none"
    /\ hit_sets' = HitSetList(parameters)
    /\ memberships' =
          IF strategy \in {ILP, CP, Z3Integer, MinILP}
          THEN ChoiceSetMembers(ElementList(parameters),
                                ChoiceSetIndices(ModelParameters(strategy, parameters)))
          ELSE <<>>
    /\ is_hit_variables' =
          IF strategy \in SlotNumeric \cup {MinILP}
          THEN IsHits(HitSetList(parameters),
                      ChoiceSetIndices(ModelParameters(strategy, parameters)))
          ELSE <<>>
    /\ choice_sets' =
          IF strategy = Z3BruteForce THEN Candidates(parameters) ELSE <<>>
    /\ time_limit' = TimeLimit(strategy)
    /\ pc' = "built"
    /\ UNCHANGED <<strategy, parameters, result, assignment, status, raised>>
    /\ UNCHANGED timer_vars

\* model construction ends in an exception: solve returns nothing
BuildRaises ==
    /\ pc = "start"
    /\ BuildException(strategy, parameters) # "none"
    /\ raised' = BuildException(strategy, parameters)
    /\ pc' = "raised"
    /\ UNCHANGED <<strategy, parameters, hit_sets, memberships, is_hit_variables,
                   choice_sets, result, assignment, status, time_limit>>
    /\ UNCHANGED timer_vars

\* status = solver.Solve() / result = solver.check()
BackendCheck ==
    /\ pc = "built"
    /\ \/ /\ strategy \in SlotNumeric
          /\ \E mem \in NumericMemberModels(parameters) :
                \E ih \in NumericIsHitModels(mem, HitSetList(parameters), parameters) :
                    assignment' = [member |-> mem, is_hit |-> ih,
                                   hit |-> <<>>, choice |-> <<>>]
          /\ result' \in FoundStatuses(strategy)
       \/ /\ strategy = MinILP
          /\ LET feasible == MinFeasibleModels(parameters)
                 least == MinObjective(parameters)
             IN  \E f \in feasible :
                   /\ \E ih \in NumericIsHitModels(MemberOf(f), HitSetList(parameters),
                                                   MinParameters(parameters)) :
                         assignment' = [member |-> MemberOf(f), is_hit |-> ih,
                                        hit |-> <<>>, choice |-> <<>>,
                                        chosen |-> ChosenOf(f)]
                   /\ result' \in
                         IF Objective(ChosenOf(f)) = least
                         THEN {"OPTIMAL", "FEASIBLE"} ELSE {"FEASIBLE"}
       \/ /\ strategy = Z3Integer
          /\ assignment' \in Z3IntegerModels(parameters)
          /\ result' \in FoundStatuses(strategy)
       \/ /\ strategy = Z3BruteForce
          /\ assignment' \in BruteForceModels(parameters)
          /\ result' \in FoundStatuses(strategy)
       \/ /\ ~Satisfiable(strategy, parameters)
          /\ result' = ProvedInfeasible(strategy)
          /\ assignment' = NoAssignment
       \/ \E st \in InconclusiveStatuses(strategy) :
            result' = st /\ assignment' = NoAssignment
    /\ pc' = "checked"
    /\ UNCHANGED <<strategy, parameters, hit_sets, memberships, is_hit_variables,
                   choice_sets, status, raised, time_limit>>
    /\ UNCHANGED timer_vars

\* the if/elif chain after the backend call
Classify ==
    /\ pc = "checked"
    /\ status' = ClassifyStatus(strategy, result)
    /\ pc' = "done"
    /\ UNCHANGED <<strategy, parameters, hit_sets, memberships, is_hit_variables,
                   choice_sets, result, assignment, raised, time_limit>>
    /\ UNCHANGED timer_vars

Next == Build \/ BuildRaises \/ BackendCheck \/ Classify

Spec == Init /\ [][Next]_vars

----------------------------------------------------------------------------
(* The backend's verdict on instances too large to list every assignment.   *)
(* Each constraint of a slot-based model reads the variables of one slot,   *)
(* except the coverage of a hit set, which needs one slot that can be       *)
(* credited with it.  The search decides the slots one after the other and  *)
(* keeps, per partial assignment, the set of hit sets (as positions in the  *)
(* hit set list) that a decided slot can be credited with.  Slots being     *)
(* interchangeable, the next slot is always one credited with the first hit *)
(* set that is still missing.                                               *)

\* value vectors of one slot's Member variables that satisfy the constraints
\* posted on that slot alone
SlotModels(s, p) ==
    IF s = Z3Integer
    THEN {mv \in [Elements(p) -> Binary] :
             /\ \A e \in Elements(p) : Z3BoundConstraint(mv[e])
             /\ (Elements(p) # {} => Z3SizeConstraint(mv, p))}
    ELSE {mv \in [Elements(p) -> Binary] : SizeConstraint(mv, p)}

\* the hit sets a slot with Member values mv can be credited with: IsHit = 1
\* satisfies the linking constraint (ILP, CP); the slot's clause of the
\* backward implication holds (Z3)
SlotHittable(s, mv, p) ==
    IF s = Z3Integer
    THEN {i \in DOMAIN HitSetList(p) :
             \A e \in ToSet(HitSetList(p)[i]) : mv[e] = 1}
    ELSE {i \in DOMAIN HitSetList(p) :
             LinkingConstraint(mv, HitSetList(p)[i], 1, p)}

SlotCredits(s, p) == {SlotHittable(s, mv, p) : mv \in SlotModels(s, p)}

Min(S) == CHOOSE x \in S : \A y \in S : x <= y

\* the credited hit sets after j decided slots, over all partial assignments
RECURSIVE SearchFrontier(_, _, _)
SearchFrontier(credits, all, j) ==
    IF j = 0 THEN {{}}
    ELSE UNION {IF covered = all
                THEN {covered \cup h : h \in credits}
                ELSE {covered \cup h :
                        h \in {c \in credits : Min(all \ covered) \in c}} :
                covered \in SearchFrontier(credits, all, j - 1)}

\* some assignment of all num_choice_sets slots credits every hit set
SearchSatisfiable(s, p) ==
    DOMAIN HitSetList(p) \in
        SearchFrontier(SlotCredits(s, p), DOMAIN HitSetList(p), p.num_choice_sets)

\* status = solver.Solve() / result = solver.check(), the assignment not kept
BackendVerdict ==
    /\ pc = "built"
    /\ result' \in
          (IF SearchSatisfiable(strategy, parameters)
           THEN FoundStatuses(strategy)
           ELSE {ProvedInfeasible(strategy)})
          \cup InconclusiveStatuses(strategy)
    /\ assignment' = NoAssignment
    /\ pc' = "checked"
    /\ UNCHANGED <<strategy, parameters, hit_sets, memberships, is_hit_variables,
                   choice_sets, status, raised, time_limit>>
    /\ UNCHANGED timer_vars

\* the reference instances of hard_instances.py ('small sat' / 'small unsat'
\* of experiments.py)
hard_feasible ==
    [num_elements |-> 7, choice_set_size |-> 3, hit_set_size |-> 2,
     num_choice_sets |-> 7]

hard_infeasible ==
    [num_elements |-> 7, choice_set_size |-> 3, hit_set_size |-> 2,
     num_choice_sets |-> 6]

\* pairs covered by triples of six elements, for every count of choice sets
\* up to the seven of the known design
SixElementSweep ==
    {[num_elements |-> 6, choice_set_size |-> 3, hit_set_size |-> 2,
      num_choice_sets |-> m] : m \in 0..7}

ScenarioInit ==
    /\ strategy \in {ILP, CP, Z3Integer, Z3Cardinality}
    /\ parameters \in SixElementSweep \cup {hard_feasible, hard_infeasible}
    /\ NotStarted

\* the numeric strategies, the minimization among them
NumericInit ==
    /\ strategy \in {ILP, CP, MinILP}
    /\ parameters \in ParameterSpace
    /\ NotStarted

NumericNext == Build \/ BackendCheck \/ Classify

SpecNumeric == NumericInit /\ [][NumericNext]_vars

ScenarioNext == Build \/ BuildRaises \/ BackendVerdict \/ Classify

SpecScenario == ScenarioInit /\ [][ScenarioNext]_vars

----------------------------------------------------------------------------
(* The statements of solve against the clock                                *)

\* building the model: creating variables, posting constraints, setting the
\* objective, setting a solver option
ConstructionOps == {"variables", "constraints", "objective", "option"}

\* Statements_start_at_entry: the start timestamp taken on entering solve
Statements_start_at_entry(s) ==
    CASE s = Z3Cardinality -> <<"raise">>
      [] OTHER -> <<"start", "variables", "constraints", "option", "invoke",
                    "end", "elapsed", "read_back", "return_elapsed">>

\* The statements of solve, in source order.
\* SubsetCoverZ3 posts the constraints after setting the timeout and keeps
\* no elapsed variable; SubsetCoverZ3BruteForce computes elapsed and returns
\* end - start; SubsetCoverZ3Cardinality raises while creating its variables.
Statements(s) ==
    CASE s = ILP ->
            <<"variables", "constraints", "objective", "start", "invoke",
              "end", "elapsed", "read_back", "return_elapsed">>
      [] s = CP ->
            <<"variables", "constraints", "option", "start", "invoke",
              "end", "elapsed", "read_back", "return_elapsed">>
      [] s = Z3Integer ->
            <<"variables", "constraints", "option", "constraints", "start",
              "invoke", "end", "read_back", "return_difference">>
      [] s = Z3Cardinality -> <<"raise">>
      [] s = Z3BruteForce ->
            <<"variables", "constraints", "option", "constraints", "start",
              "invoke", "end", "elapsed", "read_back", "return_difference">>
      [] s = MinILP ->
            <<"variables", "constraints", "objective", "option", "start",
              "invoke", "end", "elapsed", "read_back", "return_elapsed">>

\* the next statement of solve, "none" after the last
NextStatement ==
    IF step \in DOMAIN Statements(strategy)
    THEN Statements(strategy)[step] ELSE "none"

\* executing statement op took `took` ticks
Executed(op, took) ==
    /\ log' = Append(log, [op |-> op, took |-> took])
    /\ clock' = clock + took
    /\ step' = step + 1
    /\ UNCHANGED <<strategy, parameters, pc, hit_sets, memberships,
                   is_hit_variables, choice_sets, result, assignment, status,
                   raised, time_limit>>

\* one statement of the model construction
Construct ==
    /\ NextStatement \in ConstructionOps
    /\ \E took \in 0..MaxTick : Executed(NextStatement, took)
    /\ UNCHANGED <<start, end, elapsed, solve_time_seconds>>

\* the NameError of SubsetCoverZ3Cardinality ends solve
ConstructRaises ==
    /\ NextStatement = "raise"
    /\ Executed("raise", 0)
    /\ UNCHANGED <<start, end, elapsed, solve_time_seconds>>

\* start = time()
StartTimer ==
    /\ NextStatement = "start"
    /\ start' = clock
    /\ Executed("start", 0)
    /\ UNCHANGED <<end, elapsed, solve_time_seconds>>

\* status = solver.Solve() / result = solver.check()
Invoke ==
    /\ NextStatement = "invoke"
    /\ \E took \in 0..MaxTick : Executed("invoke", took)
    /\ UNCHANGED <<start, end, elapsed, solve_time_seconds>>

\* end = time()
EndTimer ==
    /\ NextStatement = "end"
    /\ end' = clock
    /\ Executed("end", 0)
    /\ UNCHANGED <<start, elapsed, solve_time_seconds>>

\* elapsed = end - start
Elapsed ==
    /\ NextStatement = "elapsed"
    /\ elapsed' = end - start
    /\ Executed("elapsed", 0)
    /\ UNCHANGED <<start, end, solve_time_seconds>>

\* classifying the status and reading the variable values back
ReadBack ==
    /\ NextStatement = "read_back"
    /\ \E took \in 0..MaxTick : Executed("read_back", took)
    /\ UNCHANGED <<start, end, elapsed, solve_time_seconds>>

\* return SubsetCoverSolution(..., solve_time_seconds=...)
Return ==
    /\ NextStatement \in {"return_elapsed", "return_difference"}
    /\ solve_time_seconds' =
          IF NextStatement = "return_elapsed" THEN elapsed ELSE end - start
    /\ Executed(NextStatement, 0)
    /\ UNCHANGED <<start, end, elapsed>>

TimerInit ==
    /\ strategy \in Strategies \cup {MinILP}
    /\ parameters \in {hard_feasible, hard_infeasible}
    /\ NotStarted

TimerNext ==
    \/ Construct
    \/ ConstructRaises
    \/ StartTimer
    \/ Invoke
    \/ EndTimer
    \/ Elapsed
    \/ ReadBack
    \/ Return

SpecTimer == TimerInit /\ [][TimerNext]_vars

----------------------------------------------------------------------------
(* Vocabulary of the properties                                             *)

\* the data model's invariant on the parameters: 1 <= t <= k <= n
ValidParameters(p) ==
    /\ 1 <= p.hit_set_size
    /\ p.hit_set_size <= p.choice_set_size
    /\ p.choice_set_size <= p.num_elements

\* the backend returned an assignment (solve reads it back after the call)
Found == pc \in {"checked", "done"} /\ result \in FoundStatuses(strategy)

\* The chosen sets an assignment stands for: each slot's members (the
\* elements whose Member value is 1), or the selected candidates
ChosenSets(s, a, p) ==
    IF s = Z3BruteForce
    THEN {ToSet(Candidates(p)[c]) : c \in {d \in DOMAIN a.choice : a.choice[d]}}
    ELSE {{e \in Elements(p) : a.member[sl][e] = 1} : sl \in DOMAIN a.member}

\* the subsets of {0..n-1} with exactly r elements
SubsetsOfSize(n, r) == {S \in SUBSET (0..(n - 1)) : Cardinality(S) = r}

\* A covering design with m blocks exists: a family of m k-subsets of the
\* universe, repetition allowed, such that every t-subset lies in one of them
CoveringDesignExists(p) ==
    \E family \in [0..(p.num_choice_sets - 1) ->
                      SubsetsOfSize(p.num_elements, p.choice_set_size)] :
        \A T \in SubsetsOfSize(p.num_elements, p.hit_set_size) :
            \E s \in DOMAIN family : T \subseteq family[s]

RECURSIVE Binomial(_, _)
Binomial(n, r) ==
    IF r < 0 \/ r > n THEN 0
    ELSE IF r = 0 THEN 1
    ELSE Binomial(n - 1, r - 1) + Binomial(n - 1, r)

\* a tuple is strictly increasing
StrictlyIncreasing(tuple) ==
    \A i, j \in DOMAIN tuple : i < j => tuple[i] < tuple[j]

\* lexicographic order on tuples of one length
LexLess(a, b) ==
    \E i \in DOMAIN a :
        /\ a[i] < b[i]
        /\ \A j \in 1..(i - 1) : a[j] = b[j]

FewerChoiceSets(p) == [p EXCEPT !.num_choice_sets = p.num_choice_sets - 1]

----------------------------------------------------------------------------
(* Properties                                                               *)

\* C1. Coverage invariant: whenever the backend of any strategy returned an
\* assignment, for any parameters, every hit set is contained in at least one
\* chosen set (the members of a slot, or a selected candidate).
CoverageInvariant ==
    Found =>
        \A i \in DOMAIN hit_sets :
            \E S \in ChosenSets(strategy, assignment, parameters) :
                ToSet(hit_sets[i]) \subseteq S

\* C1 witness: a slot-based run ended SOLVED with two slots and three hit sets
CoverageWitness ==
    /\ pc = "done" /\ status = SOLVED /\ strategy = ILP
    /\ parameters.num_choice_sets = 2 /\ Len(hit_sets) = 3

\* C2. Slot size invariant, as stated: in every assignment returned for a
\* slot-based fixed-count feasibility model (SubsetCoverILP, SubsetCoverCP,
\* SubsetCoverZ3), the Member values of every slot sum to exactly
\* choice_set_size.
SlotSizeInvariant ==
    (Found /\ strategy \in {ILP, CP, Z3Integer}) =>
        \A s \in Slots(parameters) :
            Sum(assignment.member[s], Elements(parameters))
                = parameters.choice_set_size

\* the same over a nonempty universe, where every slot has Member variables
\* in each of the three encodings
SlotSizeNonemptyUniverse ==
    parameters.num_elements >= 1 => SlotSizeInvariant

\* C3. Feasibility matches the covering-design definition: the slot-based
\* fixed-count model (ILP, CP) has a satisfying assignment exactly when a
\* covering design with m blocks exists; SOLVED is returned only when one
\* exists and INFEASIBLE only when none exists.
FeasibilityMatchesCoveringDesign ==
    (strategy \in SlotNumeric /\ ValidParameters(parameters)) =>
        /\ pc = "built" =>
              (Satisfiable(strategy, parameters) <=> CoveringDesignExists(parameters))
        /\ (pc = "done" /\ status = SOLVED) => CoveringDesignExists(parameters)
        /\ (pc = "done" /\ status = INFEASIBLE) => ~CoveringDesignExists(parameters)

\* C3 witness: INFEASIBLE is returned for n=3, k=2, t=1 with one slot (two
\* slots are needed to cover three elements with pairs)
FeasibilityWitness ==
    /\ pc = "done" /\ status = INFEASIBLE /\ strategy = CP
    /\ parameters = [num_elements |-> 3, hit_set_size |-> 1,
                     choice_set_size |-> 2, num_choice_sets |-> 1]

\* C4. Monotonicity, as stated for every feasibility encoding: if the model
\* with m choice sets is satisfiable, a run with m+1 choice sets does not end
\* INFEASIBLE (its model is satisfiable as well).
MonotonicityAllEncodings ==
    (/\ ValidParameters(parameters)
     /\ parameters.num_choice_sets >= 1
     /\ pc = "done"
     /\ Satisfiable(strategy, FewerChoiceSets(parameters)))
        => status # INFEASIBLE

\* C5. Infeasibility at zero, as stated for every feasibility encoding: with
\* num_choice_sets = 0 and 1 <= t <= n, solve returns a solution, never SOLVED,
\* and INFEASIBLE unless the backend gave up.
InfeasibleAtZero ==
    (/\ ValidParameters(parameters)
     /\ parameters.num_choice_sets = 0)
        => /\ pc # "raised"
           /\ pc # "start" => ~Satisfiable(strategy, parameters)
           /\ pc = "done" => status \in {INFEASIBLE, UNKNOWN}
           /\ (pc = "done" /\ result \notin InconclusiveStatuses(strategy))
                 => status = INFEASIBLE

\* C6. Cross-encoding agreement, as stated: for valid parameters, a run that
\* ends SOLVED under one encoding has a satisfiable model under every other
\* model-building encoding, and one that ends INFEASIBLE has an unsatisfiable
\* model under every other.
CrossEncodingAgreement ==
    (ValidParameters(parameters) /\ pc = "done") =>
        \A other \in {ILP, CP, Z3Integer, Z3BruteForce} :
            /\ status = SOLVED => Satisfiable(other, parameters)
            /\ status = INFEASIBLE => ~Satisfiable(other, parameters)

\* the hit sets just built are the C(n, t) strictly increasing t-tuples over
\* {0..n-1}, pairwise distinct, and every element occurs in one of them
HitSetsComplete ==
    /\ Len(hit_sets) = Binomial(parameters.num_elements, parameters.hit_set_size)
    /\ \A i \in DOMAIN hit_sets :
          /\ Len(hit_sets[i]) = parameters.hit_set_size
          /\ StrictlyIncreasing(hit_sets[i])
          /\ ToSet(hit_sets[i]) \subseteq Elements(parameters)
    /\ \A i, j \in DOMAIN hit_sets : i # j => hit_sets[i] # hit_sets[j]
    /\ UNION {ToSet(hit_sets[i]) : i \in DOMAIN hit_sets} = Elements(parameters)

\* C9, as stated. Hit-set completeness for all n >= 0 and all t <= n.
HitSetCompletenessAnySize ==
    (pc = "built" /\ parameters.hit_set_size <= parameters.num_elements)
        => HitSetsComplete

\* C9, amended. Hit-set completeness for all n >= 0 and all t with
\* 1 <= t <= n (for t = 0 the one hit set is the empty tuple, whose union
\* covers no element).
HitSetCompleteness ==
    (/\ pc = "built"
     /\ 1 <= parameters.hit_set_size
     /\ parameters.hit_set_size <= parameters.num_elements)
        => HitSetsComplete

\* C9 witness: the three pairs over three elements have been built
HitSetCompletenessWitness ==
    /\ pc = "built" /\ Len(hit_sets) = 3
    /\ parameters.num_elements = 3 /\ parameters.hit_set_size = 2

\* C10. Deterministic ordering: the hit sets are listed in lexicographic order
\* of the tuples, and the hit indicators are created hit set by hit set in that
\* order, slot by slot within a hit set.
DeterministicOrdering ==
    pc = "built" =>
        /\ \A i, j \in DOMAIN hit_sets :
              i < j => LexLess(hit_sets[i], hit_sets[j])
        /\ \A i, j \in DOMAIN is_hit_variables :
              i < j =>
                LET a == is_hit_variables[i]
                    b == is_hit_variables[j]
                IN  \/ LexLess(a.hit_set, b.hit_set)
                    \/ /\ a.hit_set = b.hit_set
                       /\ a.choice_set_index < b.choice_set_index

\* C10 witness: three hit sets and their six indicators over two slots
DeterministicOrderingWitness ==
    /\ pc = "built" /\ strategy = ILP
    /\ Len(hit_sets) = 3 /\ Len(is_hit_variables) = 6
    /\ parameters.hit_set_size = 2

\* the six-element scenario: pairs covered by triples
SixElementScenario(m) ==
    [num_elements |-> 6, choice_set_size |-> 3, hit_set_size |-> 2,
     num_choice_sets |-> m]

\* C7. Concrete scenario n=6, k=3, t=2 under SubsetCoverILP: with seven choice
\* sets the model is satisfiable and a verdict of the backend is returned as
\* SOLVED; with three choice sets the model is unsatisfiable and a verdict of
\* the backend is returned as INFEASIBLE.
ConcreteScenario ==
    /\ (strategy = ILP /\ parameters = SixElementScenario(7)) =>
          /\ pc = "checked" => result # ProvedInfeasible(ILP)
          /\ (pc = "done" /\ result \notin InconclusiveStatuses(ILP))
                => status = SOLVED
    /\ (strategy = ILP /\ parameters = SixElementScenario(3)) =>
          /\ pc = "checked" => result \notin FoundStatuses(ILP)
          /\ (pc = "done" /\ result \notin InconclusiveStatuses(ILP))
                => status = INFEASIBLE

\* C7 witness: the run with seven choice sets ended SOLVED on a solution the
\* backend did not prove optimal
ConcreteScenarioWitness ==
    /\ strategy = ILP /\ parameters = SixElementScenario(7)
    /\ pc = "done" /\ result = "FEASIBLE" /\ status = SOLVED

\* C8. Reference boundary instance n=7, k=3, t=2, as stated for every
\* feasibility encoding: solve returns a solution; with six choice sets a
\* verdict of the backend is returned as INFEASIBLE, with seven as SOLVED.
HardInstances ==
    (/\ parameters \in {hard_feasible, hard_infeasible}
     /\ strategy \in {ILP, Z3Integer, Z3Cardinality})
        => /\ pc # "raised"
           /\ (pc = "done" /\ result \notin InconclusiveStatuses(strategy))
                 => status = (IF parameters = hard_feasible
                              THEN SOLVED ELSE INFEASIBLE)

\* the three outcomes of solve
SolveStatuses == {SOLVED, INFEASIBLE, UNKNOWN}

\* the classifier of strategy s maps native status st into the three
\* outcomes, to INFEASIBLE only from the proven-infeasible status, and to
\* UNKNOWN from every status that is neither that nor a found solution
TotalOn(s, st, out) ==
    /\ out \in SolveStatuses
    /\ out = INFEASIBLE => st = ProvedInfeasible(s)
    /\ st \notin FoundStatuses(s) \cup {ProvedInfeasible(s)} => out = UNKNOWN

SolvedIffFound ==
    pc = "done" => (status = SOLVED <=> result \in FoundStatuses(strategy))

\* five and fifteen minutes, in milliseconds
FiveMinutes == 5 * 60 * 1000
FifteenMinutes == 15 * 60 * 1000

\* C13. Time budget, as stated: every strategy has set a time limit of five
\* to fifteen minutes on its backend when it invokes it, and a backend that
\* gave up is returned as UNKNOWN.
TimeBudget ==
    ValidParameters(parameters) =>
        /\ pc \in {"built", "checked", "done"} =>
              (FiveMinutes <= time_limit /\ time_limit <= FifteenMinutes)
        /\ (pc = "done" /\ result \in InconclusiveStatuses(strategy)) =>
              status = UNKNOWN

\* C14. No guessing in minimization, as stated: MinSubsetCoverILP returns
\* UNKNOWN when the backend ended with a feasible solution it did not prove
\* optimal (FEASIBLE), and SOLVED only with a minimum number of chosen slots.
NoGuessingInMinimization ==
    (strategy = MinILP /\ pc = "done" /\ ValidParameters(parameters)) =>
        /\ result = "FEASIBLE" => status = UNKNOWN
        /\ status = SOLVED =>
              Objective(assignment.chosen) = MinObjective(parameters)

\* C15. Parameter validation, as stated: with parameters violating
\* 1 <= t <= k <= n no model is built, the backend is not invoked and no
\* status is returned.
ParametersValidated ==
    ~ValidParameters(parameters) => pc \notin {"built", "checked", "done"}

\* t > k and m >= 1
HitSetLargerThanChoiceSet(p) ==
    p.hit_set_size > p.choice_set_size /\ p.num_choice_sets >= 1

\* the model of the running strategy has no satisfying assignment and the
\* run does not end SOLVED
NeverSolved ==
    /\ pc = "built" => ~Satisfiable(strategy, parameters)
    /\ ~Found
    /\ pc = "done" => status # SOLVED

BackendFailureSurfaces ==
    ValidParameters(parameters) =>
        ~(pc = "done" /\ result \in FailureStatuses(strategy))

\* C18. Outcomes are returned, not raised, as stated: for every strategy and
\* valid parameters solve raises nothing, and what it returns is SOLVED,
\* INFEASIBLE or UNKNOWN.
OutcomesReturned ==
    ValidParameters(parameters) =>
        /\ raised = "none"
        /\ pc = "done" => status \in SolveStatuses

\* the assignment the numeric backend returned credits slot s with hit set
\* number i
Credited(i, s) == assignment.is_hit[i][s] = 1

\* slot s of the returned assignment holds every element of hit set number i
Contains(i, s) == \A e \in ToSet(hit_sets[i]) : assignment.member[s][e] = 1

\* C19. Linking biconditional, as stated: in every assignment returned for a
\* slot-based numeric model (ILP, CP, minimization ILP) on valid parameters,
\* IsHit(h, s) = 1 exactly when every element of h is a member of slot s.
LinkingBiconditional ==
    (Found /\ ValidParameters(parameters)) =>
        \A i \in DOMAIN hit_sets :
            \A s \in DOMAIN assignment.member : Credited(i, s) <=> Contains(i, s)

\* C20. Hit indicator soundness: in every assignment returned for a
\* slot-based numeric model (ILP, CP, minimization ILP) with t >= 1,
\* IsHit(h, s) = 1 implies that every element of h is a member of slot s.
HitIndicatorSoundness ==
    (Found /\ parameters.hit_set_size >= 1) =>
        \A i \in DOMAIN hit_sets :
            \A s \in DOMAIN assignment.member : Credited(i, s) => Contains(i, s)

\* C20 witness: the minimization returned an assignment over three slots in
\* which a slot is credited with a pair
HitIndicatorSoundnessWitness ==
    /\ pc = "done" /\ strategy = MinILP /\ status = SOLVED
    /\ parameters.hit_set_size = 2 /\ parameters.num_elements = 3
    /\ \E i \in DOMAIN hit_sets : \E s \in DOMAIN assignment.member : Credited(i, s)

\* the minimization returned an assignment
MinFound == Found /\ strategy = MinILP

\* C21. Switch-gated size in minimization: in every assignment returned for
\* the MinSubsetCoverILP model the Member values of a slot sum to 0 when its
\* Chosen is 0 and to choice_set_size when its Chosen is 1; for t >= 1 a slot
\* with Chosen = 0 is credited with no hit set and every hit set is credited
\* to a slot with Chosen = 1.
SwitchGatedSize ==
    MinFound =>
        /\ \A s \in DOMAIN assignment.member :
              Sum(assignment.member[s], Elements(parameters)) =
                 IF assignment.chosen[s] = 1 THEN parameters.choice_set_size ELSE 0
        /\ parameters.hit_set_size >= 1 =>
              /\ \A s \in DOMAIN assignment.member :
                    assignment.chosen[s] = 0 =>
                        \A i \in DOMAIN hit_sets : ~Credited(i, s)
              /\ \A i \in DOMAIN hit_sets :
                    \E s \in DOMAIN assignment.member :
                        assignment.chosen[s] = 1 /\ Credited(i, s)

\* C21 witness: over two elements and two slots the minimization returned one
\* slot switched on and one switched off
SwitchGatedSizeWitness ==
    /\ MinFound /\ pc = "done" /\ status = SOLVED
    /\ parameters.num_elements = 2 /\ parameters.hit_set_size = 1
    /\ parameters.choice_set_size = 2
    /\ \E s1, s2 \in DOMAIN assignment.member :
          assignment.chosen[s1] = 1 /\ assignment.chosen[s2] = 0

\* C22. Minimization upper bound is sufficient: for all valid (n, k, t) the
\* minimization model with comb(n, t) slots has a satisfying assignment, and
\* MinSubsetCoverILP never ends INFEASIBLE on a valid instance.
UpperBoundSufficient ==
    (strategy = MinILP /\ ValidParameters(parameters)) =>
        /\ pc = "built" => Satisfiable(MinILP, parameters)
        /\ pc \in {"checked", "done"} => result # ProvedInfeasible(MinILP)
        /\ pc = "done" => status # INFEASIBLE

\* C22 witness: pairs over three elements covered by pairs, which takes each
\* of the three slots, ended SOLVED
UpperBoundSufficientWitness ==
    /\ strategy = MinILP /\ pc = "done" /\ status = SOLVED
    /\ parameters.num_elements = 3 /\ parameters.hit_set_size = 2
    /\ parameters.choice_set_size = 2
    /\ \A s \in DOMAIN assignment.chosen : assignment.chosen[s] = 1

\* p with m choice sets
WithChoiceSets(p, m) == [p EXCEPT !.num_choice_sets = m]

\* the covering number: the least m for which the fixed-count numeric model
\* with m slots is satisfiable (comb(n, t) slots always suffice)
CoveringNumber(p) ==
    LET enough == {m \in 0..comb(p.num_elements, p.hit_set_size) :
                      NumericSatisfiable(WithChoiceSets(p, m))}
    IN  CHOOSE m \in enough : \A other \in enough : m <= other

\* C23. Minimization agrees with feasibility: for valid (n, k, t) the minimum
\* of sum(Chosen) over the assignments of the MinSubsetCoverILP model equals
\* the least m for which the fixed-count model is satisfiable, whatever
\* num_choice_sets was passed in; a solution the backend proved optimal
\* switches on that many slots.
MinimizationAgreesWithFeasibility ==
    (strategy = MinILP /\ ValidParameters(parameters)) =>
        /\ pc = "built" =>
              /\ MinObjective(parameters) = CoveringNumber(parameters)
              /\ \A m \in 0..MaxM :
                    MinObjective(WithChoiceSets(parameters, m))
                        = MinObjective(parameters)
        /\ (pc = "done" /\ result = "OPTIMAL") =>
              Objective(assignment.chosen) = CoveringNumber(parameters)

\* C23 witness: single elements of a universe of three covered by pairs: the
\* optimum switches on two of the three slots
MinimizationAgreesWitness ==
    /\ strategy = MinILP /\ pc = "done" /\ result = "OPTIMAL"
    /\ parameters.num_elements = 3 /\ parameters.hit_set_size = 1
    /\ parameters.choice_set_size = 2
    /\ Objective(assignment.chosen) = 2

\* the positions in the log of the statements named op
Positions(op) == {i \in DOMAIN log : log[i].op = op}

\* solve has returned a solution
Returned ==
    log # <<>> /\ log[Len(log)].op \in {"return_elapsed", "return_difference"}

\* the time spent so far in the statements named in ops
TimeSpent(ops) ==
    Sum([i \in DOMAIN log |-> IF log[i].op \in ops THEN log[i].took ELSE 0],
        DOMAIN log)

CandidatesContaining(i) ==
    {c \in DOMAIN choice_sets : ToSet(hit_sets[i]) \subseteq ToSet(choice_sets[c])}

\* C25. Candidate structure: for t <= k <= n SubsetCoverZ3BruteForce builds
\* exactly C(n, k) candidates, each a distinct strictly increasing k-tuple of
\* elements with one Boolean selection variable; each candidate gets exactly
\* the C(k, t) implications Choice => Hit of the hit sets it contains, and
\* hit_set_to_choice_set_lookup maps each hit set to exactly the C(n-t, k-t)
\* candidates that contain it.
CandidateStructure ==
    (/\ strategy = Z3BruteForce
     /\ pc \in {"built", "checked", "done"}
     /\ parameters.hit_set_size <= parameters.choice_set_size
     /\ parameters.choice_set_size <= parameters.num_elements) =>
        LET n == parameters.num_elements
            k == parameters.choice_set_size
            t == parameters.hit_set_size
        IN  /\ Len(choice_sets) = Binomial(n, k)
            /\ \A c \in DOMAIN choice_sets :
                  /\ Len(choice_sets[c]) = k
                  /\ StrictlyIncreasing(choice_sets[c])
                  /\ ToSet(choice_sets[c]) \subseteq Elements(parameters)
            /\ \A c, d \in DOMAIN choice_sets :
                  c # d => choice_sets[c] # choice_sets[d]
            /\ Found => DOMAIN assignment.choice = DOMAIN choice_sets
            /\ \A c \in DOMAIN choice_sets :
                  LET keys == combinations(choice_sets[c], t)
                  IN  /\ Len(keys) = Binomial(k, t)
                      /\ \A a, b \in DOMAIN keys : a # b => keys[a] # keys[b]
                      /\ {Sorted(keys[a]) : a \in DOMAIN keys}
                            = {h \in ToSet(hit_sets) :
                                  ToSet(h) \subseteq ToSet(choice_sets[c])}
            /\ \A i \in DOMAIN hit_sets :
                  /\ hit_set_to_choice_set_lookup(parameters, i)
                        = CandidatesContaining(i)
                  /\ Cardinality(hit_set_to_choice_set_lookup(parameters, i))
                        = Binomial(n - t, k - t)

\* C25 witness: the three pairs of a universe of three, each containing two
\* single-element hit sets
CandidateStructureWitness ==
    /\ strategy = Z3BruteForce /\ pc = "built"
    /\ parameters.num_elements = 3 /\ parameters.choice_set_size = 2
    /\ parameters.hit_set_size = 1
    /\ choice_sets = <<<<0, 1>>, <<0, 2>>, <<1, 2>>>>
    /\ hit_set_to_choice_set_lookup(parameters, 1) = {1, 2}

\* C26. Slot builder index structure: for m slots and n elements
\* ChoiceSetMembers creates exactly m*n memberships, one per (slot, element)
\* pair, each with a variable name of its own;
\* for_choice_set_index_and_element(s, e) is the membership of slot s and
\* element e; for_choice_set_index(s) is exactly the n memberships of slot s
\* and the per-slot groups partition the memberships.  IsHits creates exactly
\* C(n, t)*m indicators and for_hit_set(h) is exactly the m indicators of h,
\* one per slot.
SlotBuilderIndex ==
    (strategy \in SlotNumeric \cup {MinILP} /\ pc \in {"built", "checked", "done"}) =>
        LET p == ModelParameters(strategy, parameters)
            n == p.num_elements
            m == p.num_choice_sets
            ms == memberships
            ih == is_hit_variables
        IN  /\ Len(ms) = m * n
            /\ \A s \in Slots(p) : \A e \in Elements(p) :
                  /\ Cardinality({i \in DOMAIN ms :
                        ms[i] = [element |-> e, choice_set_index |-> s]}) = 1
                  /\ for_choice_set_index_and_element(ms, s, e)
                        = [element |-> e, choice_set_index |-> s]
            /\ \A i, j \in DOMAIN ms :
                  i # j => MemberName(ms[i].choice_set_index, ms[i].element)
                              # MemberName(ms[j].choice_set_index, ms[j].element)
            /\ Cardinality({MemberName(s, e) : s \in 0..MaxIndex, e \in 0..MaxIndex})
                  = (MaxIndex + 1) * (MaxIndex + 1)
            /\ \A s \in Slots(p) :
                  /\ for_choice_set_index(ms, s)
                        = {[element |-> e, choice_set_index |-> s] : e \in Elements(p)}
                  /\ Cardinality(for_choice_set_index(ms, s)) = n
            /\ UNION grouped_by_choice_set(ms) = ToSet(ms)
            /\ \A g, h \in grouped_by_choice_set(ms) : g # h => g \cap h = {}
            /\ Len(ih) = Binomial(n, p.hit_set_size) * m
            /\ \A h \in ToSet(hit_sets) :
                  /\ for_hit_set(ih, h)
                        = {[hit_set |-> h, choice_set_index |-> s] : s \in Slots(p)}
                  /\ Cardinality(for_hit_set(ih, h)) = m

\* C26 witness: two slots over three elements, pairs to hit: six memberships
\* in two groups of three, six indicators in three groups of two
SlotBuilderIndexWitness ==
    /\ strategy = ILP /\ pc = "built"
    /\ parameters.num_elements = 3 /\ parameters.num_choice_sets = 2
    /\ parameters.hit_set_size = 2
    /\ Len(memberships) = 6
    /\ Cardinality(grouped_by_choice_set(memberships)) = 2
    /\ Cardinality(for_choice_set_index(memberships, 1)) = 3
    /\ Cardinality(for_hit_set(is_hit_variables, <<0, 2>>)) = 2

\* the permutations of a set of slot indices
SlotPermutations(S) == {f \in [S -> S] : \A a, b \in S : a # b => f[a] # f[b]}

\* values keyed by slot, slot s renamed to perm[s]
RenameSlots(f, perm) ==
    [q \in DOMAIN f |-> f[CHOOSE s \in DOMAIN f : perm[s] = q]]

\* an assignment with slot s renamed to perm[s] in its Member, IsHit and
\* Chosen variables
RenamedAssignment(a, perm) ==
    LET slots == [a EXCEPT !.member = RenameSlots(a.member, perm),
                           !.is_hit = [i \in DOMAIN a.is_hit |->
                                          RenameSlots(a.is_hit[i], perm)]]
    IN  IF "chosen" \in DOMAIN a
        THEN [slots EXCEPT !.chosen = RenameSlots(a.chosen, perm)]
        ELSE slots

\* assignment a satisfies every constraint of the model strategy s builds
\* for p
SatisfiesModel(s, p, a) ==
    CASE s \in SlotNumeric ->
            /\ a.member \in NumericMemberModels(p)
            /\ \A i \in DOMAIN HitSetList(p) :
                  a.is_hit[i] \in NumericIsHitChoices(a.member, HitSetList(p)[i], p)
      [] s = MinILP ->
            /\ \A q \in Slots(MinParameters(p)) :
                  [member |-> a.member[q], chosen |-> a.chosen[q]]
                      \in MinSlotModels(p)
            /\ \A i \in DOMAIN HitSetList(p) :
                  a.is_hit[i] \in NumericIsHitChoices(a.member, HitSetList(p)[i],
                                                      MinParameters(p))
      [] s = Z3Integer ->
            /\ a.member \in Z3MemberModels(p)
            /\ a.hit \in Z3HitModels(p)
            /\ Z3ForwardImplications(a.member, a.hit, p)
            /\ Z3BackwardImplications(a.member, a.hit, p)

\* C27. Slot interchangeability: in every slot-based model, an assignment
\* that satisfies the model still satisfies it after its slots are renamed
\* by any permutation of the slot indices (and, the permutations being
\* invertible, only then); nothing keeps two slots from holding the same
\* member set.
SlotInterchangeability ==
    /\ (Found /\ strategy \in SlotNumeric \cup {MinILP}) =>
          /\ SatisfiesModel(strategy, parameters, assignment)
          /\ \A perm \in SlotPermutations(Slots(ModelParameters(strategy, parameters))) :
                SatisfiesModel(strategy, parameters,
                               RenamedAssignment(assignment, perm))
    /\ pc = "built" =>
          \A a \in Z3IntegerModels(parameters) :
              \A perm \in SlotPermutations(Slots(parameters)) :
                  SatisfiesModel(Z3Integer, parameters, RenamedAssignment(a, perm))

\* C27 witness: a solution whose two slots hold the same member set, the hit
\* set (0,) credited to one of them only, so that swapping the slots gives a
\* different assignment
SlotInterchangeabilityWitness ==
    /\ Found /\ strategy = ILP
    /\ parameters.num_elements = 2 /\ parameters.choice_set_size = 2
    /\ parameters.hit_set_size = 1 /\ parameters.num_choice_sets = 2
    /\ assignment.member[0] = assignment.member[1]
    /\ assignment.is_hit[1][0] # assignment.is_hit[1][1]
    /\ \E perm \in SlotPermutations(Slots(parameters)) :
          /\ RenamedAssignment(assignment, perm) # assignment
          /\ SatisfiesModel(strategy, parameters,
                            RenamedAssignment(assignment, perm))

\* the candidates an assignment of the candidate-based model selects
Selected(a) == {c \in DOMAIN a.choice : a.choice[c]}

BruteForceTooManySets ==
    /\ strategy = Z3BruteForce /\ pc = "done" /\ status = INFEASIBLE
    /\ parameters.num_elements = 2 /\ parameters.choice_set_size = 2
    /\ parameters.hit_set_size = 1 /\ parameters.num_choice_sets = 2
    /\ Satisfiable(Z3BruteForce, WithChoiceSets(parameters, 1))
    /\ Satisfiable(ILP, parameters)

====
